---- MODULE Spec2Model ----
(***************************************************************************)
(* The self-correcting collaborative agents pipeline of                    *)
(* financial_self_correcting_collaborative_agents.py: main() awaits the    *)
(* coordinator, fans out the required experts with asyncio.gather, fans    *)
(* out one review per expert output, and awaits the integration agent.     *)
(* One action is one step of the event loop: the return or the raise of    *)
(* one Runner.run, or main running from one await to the next.             *)
(***************************************************************************)
EXTENDS Integers, Sequences, FiniteSets, TLC

VARIABLES
    pc,                     \* where main() is suspended, or how it ended
    task_description,       \* main: the input() line
    calls,                  \* every Runner.run made so far, in creation order
    completion_order,       \* the event loop: indexes into calls of the latest gather, in the order they resolved
    coordinator_output,     \* main: coordinator_output
    expert_outputs,         \* main: expert_outputs
    refined_expert_outputs, \* main: refined_expert_outputs
    integration_workspace,  \* main: integration_workspace
    final_analysis,         \* main: final_analysis
    exception               \* the exception that left main(), if any

vars == <<pc, task_description, calls, completion_order, coordinator_output,
          expert_outputs, refined_expert_outputs, integration_workspace,
          final_analysis, exception>>

\* The longest required_expertise list the coordinator returns in the model.
MaxRoles == 2

-----------------------------------------------------------------------------
\* Data model

ExpertiseArea == {"accounting", "industry", "risk"}

Upper(s) ==
    CASE s = "accounting" -> "ACCOUNTING"
      [] s = "industry" -> "INDUSTRY"
      [] s = "risk" -> "RISK"

NoValue == [none |-> TRUE]

\* Confidences are floats in the code; the model counts tenths, and no
\* field of the code bounds them.
\* The values an expert endpoint may return: any expertise_area, whichever
\* endpoint answers.
ExpertAgentOutput ==
    { [expertise_area |-> "accounting",
       thoughts |-> [reasoning |-> "r1", conclusion |-> "c1", confidence |-> 9],
       feedback_on_others |-> <<>>],
      [expertise_area |-> "industry",
       thoughts |-> [reasoning |-> "r2", conclusion |-> "c2", confidence |-> 4],
       feedback_on_others |->
          << [target_agent |-> "industry", feedback |-> "f1",
              suggested_correction |-> "s1", confidence |-> 8] >>],
      [expertise_area |-> "risk",
       thoughts |-> [reasoning |-> "r3", conclusion |-> "c3", confidence |-> 15],
       feedback_on_others |->
          << [target_agent |-> "nobody", feedback |-> "f2",
              suggested_correction |-> "None", confidence |-> 12],
             [target_agent |-> "industry", feedback |-> "f1",
              suggested_correction |-> "s1", confidence |-> 8] >>] }

SeqsUpTo(S, n) == UNION { [1..k -> S] : k \in 0..n }

\* accounting_weight, industry_weight, risk_weight, in tenths
Weights == { <<7, 3, 0>> }

CoordinatorOutput ==
    { [task_analysis |-> "ta", required_expertise |-> r,
       accounting_weight |-> w[1], industry_weight |-> w[2], risk_weight |-> w[3]] :
         r \in SeqsUpTo(ExpertiseArea, MaxRoles), w \in Weights }

FinalAnalysisOutput ==
    { [integrated_analysis |-> "ia1", confidence_level |-> 8,
       key_insights |-> <<"k1">>, dissenting_opinions |-> <<"d1">>],
      [integrated_analysis |-> "ia2", confidence_level |-> 11,
       key_insights |-> <<>>, dissenting_opinions |-> <<>>] }

Tasks == {"task"}

\* How a Runner.run fails: it raises.  No line of the code catches or
\* inspects an exception, so a response that does not parse as output_type
\* stands for every failure of the capability.
Errors == {"shape"}

-----------------------------------------------------------------------------
\* Agents

coordinator_agent == "coordinator_agent"
accounting_expert == "accounting_expert"
industry_expert == "industry_expert"
risk_expert == "risk_expert"
integration_agent == "integration_agent"

expert_agents ==
    [accounting |-> accounting_expert,
     industry |-> industry_expert,
     risk |-> risk_expert]

\* Runner.run(agent, input): a coroutine for one invocation, not yet resolved.
RunnerRun(stage, pos, agent, input) ==
    [stage |-> stage, pos |-> pos, agent |-> agent, input |-> input,
     status |-> "outstanding", output |-> NoValue, error |-> "none"]

StageCalls(stage) == { k \in DOMAIN calls : calls[k].stage = stage }

\* The index in calls of the pos-th invocation of a stage.
CallAt(stage, pos) ==
    CHOOSE k \in DOMAIN calls : calls[k].stage = stage /\ calls[k].pos = pos

-----------------------------------------------------------------------------
\* Context building

RECURSIVE Join(_, _)
\* sep.join(xs), as the sequence of its pieces
Join(sep, xs) ==
    IF Len(xs) = 0 THEN <<>>
    ELSE IF Len(xs) = 1 THEN <<xs[1]>>
    ELSE <<xs[1], sep>> \o Join(sep, Tail(xs))

\* collect_expert_outputs: the shared workspace every expert receives
AnalyzeWorkspace(task, plan) ==
    [task |-> task,
     task_analysis |-> plan.task_analysis,
     required_expertise |-> Join(", ", plan.required_expertise)]

\* Variant: required_agents ignores the plan and lists the experts in
\* registry order.
RequiredAgentsUnfiltered(plan) ==
    [i \in 1..Len(plan.required_expertise) |->
        <<accounting_expert, industry_expert, risk_expert>>[i]]

\* collect_expert_outputs: required_agents
RequiredAgents(plan) ==
    [i \in 1..Len(plan.required_expertise) |->
        expert_agents[plan.required_expertise[i]]]

\* Variant: an empty required_expertise falls back to every expert.
ExpertTasksDefaultAll(task, plan) ==
    LET agents == IF Len(plan.required_expertise) = 0
                    THEN <<accounting_expert, industry_expert, risk_expert>>
                    ELSE [i \in 1..Len(plan.required_expertise) |->
                            expert_agents[plan.required_expertise[i]]]
    IN  [i \in 1..Len(agents) |->
            RunnerRun("analyze", i, agents[i], AnalyzeWorkspace(task, plan))]

\* collect_expert_outputs: expert_tasks
ExpertTasks(task, plan) ==
    [i \in 1..Len(plan.required_expertise) |->
        RunnerRun("analyze", i, RequiredAgents(plan)[i], AnalyzeWorkspace(task, plan))]

\* Variant: the workspace lists the analyses in the order the experts
\* resolved.
FeedbackWorkspaceInCompletionOrder(outputs) ==
    [i \in 1..Len(outputs) |->
        LET o == outputs[calls[completion_order[i]].pos]
        IN  [header |-> Upper(o.expertise_area),
             reasoning |-> o.thoughts.reasoning,
             conclusion |-> o.thoughts.conclusion,
             confidence |-> o.thoughts.confidence]]

\* collaborative_feedback_round: the workspace of all expert thoughts
FeedbackWorkspace(outputs) ==
    [i \in 1..Len(outputs) |->
        [header |-> Upper(outputs[i].expertise_area),
         reasoning |-> outputs[i].thoughts.reasoning,
         conclusion |-> outputs[i].thoughts.conclusion,
         confidence |-> outputs[i].thoughts.confidence]]

\* Variant: an expert is shown its peers' analyses only, not its own.
ReviewPromptPeersOnly(workspace, output) ==
    [workspace |-> SelectSeq(workspace,
                       LAMBDA e : e.header # Upper(output.expertise_area)),
     you_are |-> Upper(output.expertise_area)]

\* collaborative_feedback_round: review_prompt
ReviewPrompt(workspace, output) ==
    [workspace |-> workspace, you_are |-> Upper(output.expertise_area)]

RECURSIVE FeedbackTasksFrom(_, _, _)
\* collaborative_feedback_round: the loop that fills feedback_tasks, choosing
\* the agent by the expertise_area the output reports
FeedbackTasksFrom(outputs, i, feedback_tasks) ==
    IF i > Len(outputs) THEN feedback_tasks
    ELSE LET output == outputs[i]
             review_prompt == ReviewPrompt(FeedbackWorkspace(outputs), output)
             pos == Len(feedback_tasks) + 1
         IN  IF output.expertise_area = "accounting"
               THEN FeedbackTasksFrom(outputs, i + 1, Append(feedback_tasks,
                        RunnerRun("critique", pos, accounting_expert, review_prompt)))
             ELSE IF output.expertise_area = "industry"
               THEN FeedbackTasksFrom(outputs, i + 1, Append(feedback_tasks,
                        RunnerRun("critique", pos, industry_expert, review_prompt)))
             ELSE IF output.expertise_area = "risk"
               THEN FeedbackTasksFrom(outputs, i + 1, Append(feedback_tasks,
                        RunnerRun("critique", pos, risk_expert, review_prompt)))
             ELSE FeedbackTasksFrom(outputs, i + 1, feedback_tasks)

\* Variant: an output that reports the risk area gets no review.
FeedbackTasksWithoutRisk(outputs) ==
    FeedbackTasksFrom(SelectSeq(outputs, LAMBDA o : o.expertise_area # "risk"),
                      1, <<>>)

\* collaborative_feedback_round: feedback_tasks
FeedbackTasks(outputs) == FeedbackTasksFrom(outputs, 1, <<>>)

\* Variant: feedback whose target_agent names no expertise area is left out
\* of the expert's block.
ExpertBlockKnownTargetsOnly(output) ==
    LET kept == SelectSeq(output.feedback_on_others,
                          LAMBDA f : f.target_agent \in ExpertiseArea)
    IN  [header |-> Upper(output.expertise_area),
         analysis |-> output.thoughts.conclusion,
         confidence |-> output.thoughts.confidence,
         feedback_on_others |->
            [j \in 1..Len(kept) |->
                [to |-> kept[j].target_agent,
                 feedback |-> kept[j].feedback,
                 suggested_correction |-> kept[j].suggested_correction,
                 confidence |-> kept[j].confidence]]]

\* main: one expert's block of the integration workspace
ExpertBlock(output) ==
    [header |-> Upper(output.expertise_area),
     analysis |-> output.thoughts.conclusion,
     confidence |-> output.thoughts.confidence,
     feedback_on_others |->
        [j \in 1..Len(output.feedback_on_others) |->
            [to |-> output.feedback_on_others[j].target_agent,
             feedback |-> output.feedback_on_others[j].feedback,
             suggested_correction |-> output.feedback_on_others[j].suggested_correction,
             confidence |-> output.feedback_on_others[j].confidence]]]

\* Variant: the integration workspace is rendered from expert_outputs, the
\* analyses before the feedback round.
IntegrationWorkspaceStale(task, plan, outputs) ==
    [task |-> task,
     coordinator_analysis |-> plan.task_analysis,
     expertise_weights |-> [accounting |-> plan.accounting_weight,
                            industry |-> plan.industry_weight,
                            risk |-> plan.risk_weight],
     experts |-> [i \in 1..Len(expert_outputs) |-> ExpertBlock(expert_outputs[i])]]

\* main: integration_workspace
IntegrationWorkspace(task, plan, outputs) ==
    [task |-> task,
     coordinator_analysis |-> plan.task_analysis,
     expertise_weights |-> [accounting |-> plan.accounting_weight,
                            industry |-> plan.industry_weight,
                            risk |-> plan.risk_weight],
     experts |-> [i \in 1..Len(outputs) |-> ExpertBlock(outputs[i])]]

-----------------------------------------------------------------------------
\* asyncio.gather over the invocations of one stage

StageSize(stage) == Cardinality(StageCalls(stage))

\* every awaitable has returned: gather's future holds the result list
GatherDone(stage) ==
    \A k \in StageCalls(stage) : calls[k].status = "returned"

\* some awaitable has raised: gather's future holds its exception
GatherFailed(stage) ==
    \E k \in StageCalls(stage) : calls[k].status = "raised"

\* Variant: the result list in the order the awaitables resolved.
GatherResultsAsCompleted(stage) ==
    [i \in 1..Len(completion_order) |-> calls[completion_order[i]].output]

\* the result list, in the order the awaitables were passed
GatherResults(stage) ==
    [i \in 1..StageSize(stage) |-> calls[CallAt(stage, i)].output]

\* the exception gather propagates: that of the first awaitable to raise
FirstRaised ==
    LET raised == SelectSeq(completion_order, LAMBDA k : calls[k].status = "raised")
    IN  raised[1]

\* Variant: the loop is closed with the pending invocations left running.
CancelNothing(cs) == cs

\* asyncio.run closing the loop after main() raised: what is still pending
\* is cancelled
CancelOutstanding(cs) ==
    [k \in DOMAIN cs |->
        IF cs[k].status = "outstanding" THEN [cs[k] EXCEPT !.status = "cancelled"]
        ELSE cs[k]]

NoException == [type |-> "none", call |-> 0]

Returned(k, out) == [calls EXCEPT ![k].status = "returned", ![k].output = out]
Raised(k, e) == [calls EXCEPT ![k].status = "raised", ![k].error = e]

-----------------------------------------------------------------------------
\* The run

Init ==
    /\ task_description \in Tasks
    /\ pc = "planning"
    /\ calls = << RunnerRun("plan", 1, coordinator_agent, task_description) >>
    /\ completion_order = <<>>
    /\ coordinator_output = NoValue
    /\ expert_outputs = <<>>
    /\ refined_expert_outputs = <<>>
    /\ integration_workspace = NoValue
    /\ final_analysis = NoValue
    /\ exception = NoException

\* The coordinator returns; main goes on into collect_expert_outputs and
\* suspends at its gather.
PlanReturn(out) ==
    /\ pc = "planning"
    /\ calls[1].status = "outstanding"
    /\ coordinator_output' = out
    /\ calls' = Returned(1, out) \o ExpertTasks(task_description, out)
    /\ completion_order' = <<>>
    /\ pc' = "analyzing"
    /\ UNCHANGED <<task_description, expert_outputs, refined_expert_outputs,
                   integration_workspace, final_analysis, exception>>

\* Variant: a failed coordinator is replaced by a default plan and the
\* experts run anyway.
PlanRaiseDefaultPlan(e) ==
    LET plan == [task_analysis |-> "ta", required_expertise |-> <<"accounting">>,
                 accounting_weight |-> 7, industry_weight |-> 3, risk_weight |-> 0]
    IN  /\ pc = "planning"
        /\ calls[1].status = "outstanding"
        /\ coordinator_output' = plan
        /\ calls' = Raised(1, e) \o ExpertTasks(task_description, plan)
        /\ completion_order' = <<>>
        /\ pc' = "analyzing"
        /\ UNCHANGED <<task_description, expert_outputs, refined_expert_outputs,
                       integration_workspace, final_analysis, exception>>

\* The coordinator raises; nothing in main catches it.
PlanRaise(e) ==
    /\ pc = "planning"
    /\ calls[1].status = "outstanding"
    /\ calls' = CancelOutstanding(Raised(1, e))
    /\ exception' = [type |-> e, call |-> 1]
    /\ completion_order' = <<>>
    /\ pc' = "failed"
    /\ UNCHANGED <<task_description, coordinator_output,
                   expert_outputs, refined_expert_outputs, integration_workspace,
                   final_analysis>>

\* One gathered invocation returns a value of its output_type.
TaskReturn(k, out) ==
    /\ pc \in {"analyzing", "critiquing"}
    /\ k \in StageCalls("analyze") \cup StageCalls("critique")
    /\ calls[k].status = "outstanding"
    /\ calls' = Returned(k, out)
    /\ completion_order' = Append(completion_order, k)
    /\ UNCHANGED <<pc, task_description, coordinator_output, expert_outputs,
                   refined_expert_outputs, integration_workspace, final_analysis,
                   exception>>

\* One gathered invocation raises.
TaskRaise(k, e) ==
    /\ pc \in {"analyzing", "critiquing"}
    /\ k \in StageCalls("analyze") \cup StageCalls("critique")
    /\ calls[k].status = "outstanding"
    /\ calls' = Raised(k, e)
    /\ completion_order' = Append(completion_order, k)
    /\ UNCHANGED <<pc, task_description, coordinator_output, expert_outputs,
                   refined_expert_outputs, integration_workspace, final_analysis,
                   exception>>

\* Variant: main goes on as soon as one expert task has returned, with the
\* results there are.
AnalyzeGatherReturnFirstCompleted ==
    /\ pc = "analyzing"
    /\ \/ StageCalls("analyze") = {}
       \/ \E k \in StageCalls("analyze") : calls[k].status = "returned"
    /\ expert_outputs' = SelectSeq(GatherResults("analyze"), LAMBDA o : o # NoValue)
    /\ calls' = calls \o FeedbackTasks(expert_outputs')
    /\ completion_order' = <<>>
    /\ pc' = "critiquing"
    /\ UNCHANGED <<task_description, coordinator_output, refined_expert_outputs,
                   integration_workspace, final_analysis, exception>>

\* gather of the expert tasks returns; main goes on into
\* collaborative_feedback_round and suspends at its gather.
AnalyzeGatherReturn ==
    /\ pc = "analyzing"
    /\ GatherDone("analyze")
    /\ expert_outputs' = GatherResults("analyze")
    /\ calls' = calls \o FeedbackTasks(expert_outputs')
    /\ completion_order' = <<>>
    /\ pc' = "critiquing"
    /\ UNCHANGED <<task_description, coordinator_output, refined_expert_outputs,
                   integration_workspace, final_analysis, exception>>

\* Variant: gather collects the exceptions with the results and the feedback
\* round goes on over the outputs of the experts that returned.
AnalyzeGatherRaiseDropsFailed ==
    /\ pc = "analyzing"
    /\ GatherFailed("analyze")
    /\ \A k \in StageCalls("analyze") : calls[k].status # "outstanding"
    /\ expert_outputs' = SelectSeq(GatherResults("analyze"), LAMBDA o : o # NoValue)
    /\ calls' = calls \o FeedbackTasks(expert_outputs')
    /\ completion_order' = <<>>
    /\ pc' = "critiquing"
    /\ UNCHANGED <<task_description, coordinator_output, refined_expert_outputs,
                   integration_workspace, final_analysis, exception>>

\* gather of the expert tasks raises out of collect_expert_outputs and main.
AnalyzeGatherRaise ==
    /\ pc = "analyzing"
    /\ GatherFailed("analyze")
    /\ exception' = [type |-> calls[FirstRaised].error, call |-> FirstRaised]
    /\ calls' = CancelOutstanding(calls)
    /\ completion_order' = <<>>
    /\ pc' = "failed"
    /\ UNCHANGED <<task_description, coordinator_output,
                   expert_outputs, refined_expert_outputs, integration_workspace,
                   final_analysis>>

\* Variant: main returns after the feedback round without integrating.
CritiqueGatherReturnSkipsIntegration ==
    /\ pc = "critiquing"
    /\ GatherDone("critique")
    /\ refined_expert_outputs' = GatherResults("critique")
    /\ completion_order' = <<>>
    /\ pc' = "done"
    /\ UNCHANGED <<task_description, calls, coordinator_output, expert_outputs,
                   integration_workspace, final_analysis, exception>>

\* gather of the feedback tasks returns; main builds the integration
\* workspace and suspends at the integration agent.
CritiqueGatherReturn ==
    /\ pc = "critiquing"
    /\ GatherDone("critique")
    /\ refined_expert_outputs' = GatherResults("critique")
    /\ integration_workspace' =
          IntegrationWorkspace(task_description, coordinator_output,
                               refined_expert_outputs')
    /\ calls' = Append(calls,
          RunnerRun("integrate", 1, integration_agent, integration_workspace'))
    /\ pc' = "integrating"
    /\ UNCHANGED <<task_description, completion_order, coordinator_output,
                   expert_outputs,
                   final_analysis, exception>>

\* Variant: the gather of the feedback tasks is given a timeout and raises
\* when it expires with a review still outstanding.
CritiqueGatherRaiseOnTimeout ==
    /\ pc = "critiquing"
    /\ \/ GatherFailed("critique")
       \/ \E k \in StageCalls("critique") : calls[k].status = "outstanding"
    /\ exception' = IF GatherFailed("critique")
                      THEN [type |-> calls[FirstRaised].error, call |-> FirstRaised]
                      ELSE [type |-> "timeout", call |-> 0]
    /\ calls' = CancelOutstanding(calls)
    /\ completion_order' = <<>>
    /\ pc' = "failed"
    /\ UNCHANGED <<task_description, coordinator_output, expert_outputs,
                   refined_expert_outputs, integration_workspace, final_analysis>>

\* gather of the feedback tasks raises out of collaborative_feedback_round
\* and main.
CritiqueGatherRaise ==
    /\ pc = "critiquing"
    /\ GatherFailed("critique")
    /\ exception' = [type |-> calls[FirstRaised].error, call |-> FirstRaised]
    /\ calls' = CancelOutstanding(calls)
    /\ completion_order' = <<>>
    /\ pc' = "failed"
    /\ UNCHANGED <<task_description, coordinator_output,
                   expert_outputs, refined_expert_outputs, integration_workspace,
                   final_analysis>>

\* The integration agent returns; main prints the final analysis and ends.
IntegrateReturn(out) ==
    /\ pc = "integrating"
    /\ calls[Len(calls)].status = "outstanding"
    /\ final_analysis' = out
    /\ calls' = Returned(Len(calls), out)
    /\ completion_order' = <<>>
    /\ pc' = "done"
    /\ UNCHANGED <<task_description, coordinator_output,
                   expert_outputs, refined_expert_outputs, integration_workspace,
                   exception>>

\* The integration agent raises; nothing in main catches it.
IntegrateRaise(e) ==
    /\ pc = "integrating"
    /\ calls[Len(calls)].status = "outstanding"
    /\ calls' = CancelOutstanding(Raised(Len(calls), e))
    /\ exception' = [type |-> e, call |-> Len(calls)]
    /\ completion_order' = <<>>
    /\ pc' = "failed"
    /\ UNCHANGED <<task_description, coordinator_output,
                   expert_outputs, refined_expert_outputs, integration_workspace,
                   final_analysis>>

Next ==
    \/ \E out \in CoordinatorOutput : PlanReturn(out)
    \/ \E e \in Errors : PlanRaise(e)
    \/ \E k \in DOMAIN calls : \E out \in ExpertAgentOutput : TaskReturn(k, out)
    \/ \E k \in DOMAIN calls : \E e \in Errors : TaskRaise(k, e)
    \/ AnalyzeGatherReturn
    \/ AnalyzeGatherRaise
    \/ CritiqueGatherReturn
    \/ CritiqueGatherRaise
    \/ \E out \in FinalAnalysisOutput : IntegrateReturn(out)
    \/ \E e \in Errors : IntegrateRaise(e)

Spec == Init /\ [][Next]_vars

\* The capability resolves invocation k: it returns or it raises.
InvocationResolves(k) ==
    \/ /\ k = 1
       /\ \/ \E out \in CoordinatorOutput : PlanReturn(out)
          \/ \E e \in Errors : PlanRaise(e)
    \/ \E out \in ExpertAgentOutput : TaskReturn(k, out)
    \/ \E e \in Errors : TaskRaise(k, e)
    \/ /\ k = Len(calls)
       /\ \/ \E out \in FinalAnalysisOutput : IntegrateReturn(out)
          \/ \E e \in Errors : IntegrateRaise(e)

\* The event loop resumes main when the gather it awaits has a result or an
\* exception.
MainResumes ==
    \/ AnalyzeGatherReturn
    \/ AnalyzeGatherRaise
    \/ CritiqueGatherReturn
    \/ CritiqueGatherRaise

\* The run under the assumption that every outstanding invocation is
\* eventually resolved; the event loop runs every callback that is ready.
FairSpec ==
    /\ Init /\ [][Next]_vars
    /\ WF_vars(MainResumes)
    /\ \A k \in 1..(2 * MaxRoles + 2) : WF_vars(InvocationResolves(k))

-----------------------------------------------------------------------------
\* Properties

Resolved(k) == calls[k].status \in {"returned", "raised"}

\* C1: an invocation of a stage exists only when every invocation of the
\* stage before it has returned or raised; none of them is outstanding.
C1_StageBarrier ==
    /\ StageCalls("analyze") # {} => \A j \in StageCalls("plan") : Resolved(j)
    /\ StageCalls("critique") # {} =>
          \A j \in StageCalls("plan") \cup StageCalls("analyze") : Resolved(j)
    /\ StageCalls("integrate") # {} =>
          \A j \in StageCalls("plan") \cup StageCalls("analyze")
                     \cup StageCalls("critique") : Resolved(j)

\* Two experts were analysed concurrently, two reviews followed and the
\* integration agent has been invoked.
C1_Witness ==
    /\ StageSize("analyze") = 2
    /\ StageSize("critique") = 2
    /\ StageSize("integrate") = 1

StageOrder ==
    { <<"planning", "analyzing">>, <<"analyzing", "critiquing">>,
      <<"critiquing", "integrating">>, <<"integrating", "done">> }

\* C2: main only moves planning -> analyzing -> critiquing -> integrating
\* -> done, or from one of the first four to failed; done and failed are
\* left by no step; final_analysis is assigned once, on integrating -> done.
C2_StateMachine ==
    [][ /\ pc \notin {"done", "failed"}
        /\ \/ pc' = pc
           \/ <<pc, pc'>> \in StageOrder
           \/ pc' = "failed"
        /\ final_analysis' # final_analysis =>
              /\ pc = "integrating" /\ pc' = "done"
              /\ final_analysis = NoValue
        /\ pc' = "done" => final_analysis' # NoValue ]_vars

\* A run over two experts ended with a final analysis.
C2_Witness ==
    /\ pc = "done"
    /\ final_analysis # NoValue
    /\ StageSize("critique") = 2

\* C3: when the coordinator invocation raises, the run has failed with the
\* coordinator's error and no expert and no integration invocation exists.
C3_PlanFailureIsFatal ==
    calls[1].status = "raised" =>
        /\ pc = "failed"
        /\ exception = [type |-> calls[1].error, call |-> 1]
        /\ StageCalls("analyze") = {}
        /\ StageCalls("critique") = {}
        /\ StageCalls("integrate") = {}
        /\ final_analysis = NoValue

\* The coordinator invocation has raised.
C3_Witness ==
    /\ calls[1].status = "raised"
    /\ pc = "failed"

CritiqueStarted == pc \in {"critiquing", "integrating", "done"}

\* C4: the feedback round invokes, position by position, the agents the
\* analysis round invoked.
C4_CritiqueUsesAnalyzeEndpoints ==
    CritiqueStarted =>
        /\ StageSize("critique") = StageSize("analyze")
        /\ \A i \in 1..StageSize("critique") :
              calls[CallAt("critique", i)].agent = calls[CallAt("analyze", i)].agent

\* C5: the workspace of every review prompt holds the analysis of every
\* expert invocation, in order, and nothing else, also after reviews have
\* returned.
C5_CritiqueContextIsAnalyses ==
    \A k \in StageCalls("critique") :
        LET ws == calls[k].input.workspace
        IN  /\ Len(ws) = StageSize("analyze")
            /\ \A i \in 1..Len(ws) :
                  LET a == calls[CallAt("analyze", i)].output
                  IN  /\ ws[i].header = Upper(a.expertise_area)
                      /\ ws[i].reasoning = a.thoughts.reasoning
                      /\ ws[i].conclusion = a.thoughts.conclusion
                      /\ ws[i].confidence = a.thoughts.confidence

\* One review has returned something no analysis said while another review
\* is still outstanding.
C5_Witness ==
    /\ pc = "critiquing"
    /\ \E k, j \in StageCalls("critique") :
          /\ calls[k].status = "returned"
          /\ calls[j].status = "outstanding"
          /\ \A a \in StageCalls("analyze") : calls[a].output # calls[k].output

PlanReturned == calls[1].status = "returned"

AnalyzeReturned == pc \in {"critiquing", "integrating", "done"}

\* C6: a plan of N required roles makes N expert invocations, the i-th to
\* the agent of the i-th role, each once; when they have all returned,
\* expert_outputs holds their N outputs in that order.
C6_AnalyzeInvokesEachRequiredRole ==
    PlanReturned =>
        LET required == coordinator_output.required_expertise
            endpoint == [accounting |-> "accounting_expert",
                         industry |-> "industry_expert",
                         risk |-> "risk_expert"]
        IN  /\ StageSize("analyze") = Len(required)
            /\ \A i \in 1..Len(required) :
                  /\ Cardinality({ k \in StageCalls("analyze") : calls[k].pos = i }) = 1
                  /\ calls[CallAt("analyze", i)].agent = endpoint[required[i]]
            /\ AnalyzeReturned =>
                  /\ Len(expert_outputs) = Len(required)
                  /\ \A i \in 1..Len(required) :
                        /\ calls[CallAt("analyze", i)].status = "returned"
                        /\ expert_outputs[i] = calls[CallAt("analyze", i)].output

\* The experts of a two-role plan have both returned.
C6_Witness ==
    /\ PlanReturned
    /\ AnalyzeReturned
    /\ Len(coordinator_output.required_expertise) = 2
    /\ Len(expert_outputs) = 2

\* C7: the i-th element of expert_outputs is what the i-th expert invocation
\* returned, and the i-th element of refined_expert_outputs is what the
\* review made for the i-th expert output returned, in whichever order the
\* invocations resolved.
C7_ResultsInInvocationOrder ==
    /\ AnalyzeReturned =>
          /\ Len(expert_outputs) = StageSize("analyze")
          /\ \A i \in 1..Len(expert_outputs) :
                expert_outputs[i] = calls[CallAt("analyze", i)].output
    /\ pc \in {"integrating", "done"} =>
          /\ Len(refined_expert_outputs) = Len(expert_outputs)
          /\ \A i \in 1..Len(refined_expert_outputs) :
                /\ refined_expert_outputs[i] = calls[CallAt("critique", i)].output
                /\ calls[CallAt("critique", i)].input.you_are =
                      Upper(expert_outputs[i].expertise_area)

\* The second review returned before the first, with a different output.
C7_Witness ==
    /\ pc = "integrating"
    /\ Len(completion_order) = 2
    /\ calls[completion_order[1]].pos = 2
    /\ calls[completion_order[2]].pos = 1
    /\ refined_expert_outputs[1] # refined_expert_outputs[2]

\* C8: the expert blocks of the integration agent's input are the outputs
\* of the review invocations, in order: their conclusions and confidences,
\* none taken from the analysis round.
C8_IntegrationSeesCritiqueOutputs ==
    \A k \in StageCalls("integrate") :
        LET experts == calls[k].input.experts
        IN  /\ Len(experts) = StageSize("critique")
            /\ \A i \in 1..Len(experts) :
                  LET c == calls[CallAt("critique", i)].output
                  IN  /\ experts[i].header = Upper(c.expertise_area)
                      /\ experts[i].analysis = c.thoughts.conclusion
                      /\ experts[i].confidence = c.thoughts.confidence

\* The integration agent has been invoked after reviews whose conclusions
\* and confidences all differ from those of the analyses.
C8_Witness ==
    /\ StageCalls("integrate") # {}
    /\ StageSize("critique") = 2
    /\ \A i \in 1..2 :
          /\ refined_expert_outputs[i].thoughts.conclusion
                # expert_outputs[i].thoughts.conclusion
          /\ refined_expert_outputs[i].thoughts.confidence
                # expert_outputs[i].thoughts.confidence

\* C9: with an empty required_expertise no expert is invoked in either
\* round, the integration agent is invoked with no expert block, the run
\* fails only if that invocation raises, and is done with a final analysis
\* once it has returned.
C9_EmptyPlanStillIntegrates ==
    (PlanReturned /\ coordinator_output.required_expertise = <<>>) =>
        /\ StageCalls("analyze") = {}
        /\ StageCalls("critique") = {}
        /\ \A k \in StageCalls("integrate") :
              /\ calls[k].input.experts = <<>>
              /\ calls[k].status = "returned" =>
                    pc = "done" /\ final_analysis = calls[k].output
        /\ pc = "failed" =>
              /\ exception.call \in StageCalls("integrate")
              /\ calls[exception.call].status = "raised"

\* A run whose plan required no role is done.
C9_Witness ==
    /\ pc = "done"
    /\ coordinator_output.required_expertise = <<>>
    /\ final_analysis # NoValue

\* C10: when one expert invocation of the analysis round raises on a
\* malformed response and the others return, the run does not fail: it goes
\* on with the outputs of the experts that returned.
C10_MalformedAnalyzeDegrades ==
    (\E k \in StageCalls("analyze") :
        /\ calls[k].status = "raised"
        /\ calls[k].error = "shape"
        /\ \A j \in StageCalls("analyze") \ {k} : calls[j].status = "returned")
    => pc # "failed"

FailedExpertCalls ==
    { k \in StageCalls("analyze") \cup StageCalls("critique") :
        calls[k].status = "raised" }

C12_FailureIsTagged ==
    pc = "failed" =>
        /\ {"stage", "roles"} \subseteq DOMAIN exception
        /\ \A k \in DOMAIN calls :
              exception # [type |-> calls[k].error, call |-> k]

\* C13: once an expert invocation has raised, nothing of its stage reaches a
\* later stage: the stage's result list is never assigned and no invocation
\* of a later stage is made; when main has failed no invocation is left
\* outstanding.
C13_FailedStageCommitsNothing ==
    /\ (\E k \in StageCalls("analyze") : calls[k].status = "raised") =>
          /\ expert_outputs = <<>>
          /\ StageCalls("critique") = {}
          /\ StageCalls("integrate") = {}
    /\ (\E k \in StageCalls("critique") : calls[k].status = "raised") =>
          /\ refined_expert_outputs = <<>>
          /\ integration_workspace = NoValue
          /\ StageCalls("integrate") = {}
    /\ pc = "failed" =>
          \A k \in DOMAIN calls : calls[k].status # "outstanding"

\* An expert invocation raised while its sibling was outstanding; the run
\* has failed and the sibling is cancelled.
C13_Witness ==
    /\ pc = "failed"
    /\ \E k, j \in StageCalls("analyze") :
          /\ calls[k].status = "raised"
          /\ calls[j].status = "cancelled"

InRange(c) == c \in 0..10

\* C14: every confidence of a response that an invocation returned lies in
\* [0.0, 1.0] (0..10 tenths).
C14_ConfidencesInRange ==
    \A k \in DOMAIN calls :
        calls[k].status = "returned" =>
            /\ calls[k].stage \in {"analyze", "critique"} =>
                  /\ InRange(calls[k].output.thoughts.confidence)
                  /\ \A j \in DOMAIN calls[k].output.feedback_on_others :
                        InRange(calls[k].output.feedback_on_others[j].confidence)
            /\ calls[k].stage = "integrate" =>
                  InRange(calls[k].output.confidence_level)

\* C15: within the analysis round, and within the feedback round, no agent
\* is invoked twice.
C15_NoEndpointTwiceInStage ==
    \A stage \in {"analyze", "critique"} :
        \A k, j \in StageCalls(stage) :
            k # j => calls[k].agent # calls[j].agent

RenderedBlock(c) ==
    [header |-> Upper(c.expertise_area),
     analysis |-> c.thoughts.conclusion,
     confidence |-> c.thoughts.confidence,
     feedback_on_others |->
        [j \in 1..Len(c.feedback_on_others) |->
            [to |-> c.feedback_on_others[j].target_agent,
             feedback |-> c.feedback_on_others[j].feedback,
             suggested_correction |-> c.feedback_on_others[j].suggested_correction,
             confidence |-> c.feedback_on_others[j].confidence]]]

\* C17: every context is a function of the task, the coordinator's output
\* and the outputs of the stage before, and of nothing else: the input of
\* every expert invocation is the same rendering of task and plan, the
\* workspace of every review prompt is the same rendering of the analyses in
\* invocation order (only the closing directive differs), and the
\* integration agent's input is the rendering of task, plan and reviews.
C17_ContextsAreFunctionsOfInputs ==
    LET plan == calls[1].output
        analysis(i) == calls[CallAt("analyze", i)].output
    IN  /\ \A k \in StageCalls("analyze") :
              LET ws == calls[k].input
                  required == plan.required_expertise
              IN  /\ DOMAIN ws = {"task", "task_analysis", "required_expertise"}
                  /\ ws.task = task_description
                  /\ ws.task_analysis = plan.task_analysis
                  /\ Len(ws.required_expertise) = 2 * Len(required) - 1
                  /\ \A i \in 1..Len(required) :
                        ws.required_expertise[2 * i - 1] = required[i]
                  /\ \A i \in 1..(Len(required) - 1) :
                        ws.required_expertise[2 * i] = ", "
        /\ \A k \in StageCalls("critique") :
              /\ calls[k].input =
                    [workspace |->
                        [i \in 1..StageSize("analyze") |->
                            [header |-> Upper(analysis(i).expertise_area),
                             reasoning |-> analysis(i).thoughts.reasoning,
                             conclusion |-> analysis(i).thoughts.conclusion,
                             confidence |-> analysis(i).thoughts.confidence]],
                     you_are |-> Upper(analysis(calls[k].pos).expertise_area)]
              /\ \A j \in StageCalls("critique") :
                    calls[j].input.workspace = calls[k].input.workspace
        /\ \A k \in StageCalls("integrate") :
              calls[k].input =
                 [task |-> task_description,
                  coordinator_analysis |-> plan.task_analysis,
                  expertise_weights |-> [accounting |-> plan.accounting_weight,
                                         industry |-> plan.industry_weight,
                                         risk |-> plan.risk_weight],
                  experts |-> [i \in 1..StageSize("critique") |->
                                  RenderedBlock(calls[CallAt("critique", i)].output)]]

\* Two reviews were made with different closing directives over analyses
\* that differ, and the integration agent has been invoked.
C17_Witness ==
    /\ StageCalls("integrate") # {}
    /\ StageSize("critique") = 2
    /\ calls[CallAt("critique", 1)].input.you_are
          # calls[CallAt("critique", 2)].input.you_are
    /\ refined_expert_outputs[1] # refined_expert_outputs[2]

\* C18: the feedback round makes one invocation per element of
\* expert_outputs; a run that is done over a plan of N required roles made
\* 2N + 2 invocations, 1 + N + N + 1 by stage, all of which returned, and
\* the integration agent received N expert blocks.
C18_InvocationCount ==
    /\ CritiqueStarted => StageSize("critique") = Len(expert_outputs)
    /\ pc = "done" =>
          LET N == Len(calls[1].output.required_expertise)
          IN  /\ Len(calls) = 2 * N + 2
              /\ StageSize("plan") = 1
              /\ StageSize("analyze") = N
              /\ StageSize("critique") = N
              /\ StageSize("integrate") = 1
              /\ \A k \in DOMAIN calls : calls[k].status = "returned"
              /\ \A k \in StageCalls("integrate") : Len(calls[k].input.experts) = N

\* A run over two required roles is done although both analyses reported
\* the same expertise area, the risk area.
C18_Witness ==
    /\ pc = "done"
    /\ Len(coordinator_output.required_expertise) = 2
    /\ expert_outputs[1].expertise_area = "risk"
    /\ expert_outputs[2].expertise_area = "risk"

Terminated == pc \in {"done", "failed"}

\* C19 as stated: every run ends done or failed, and main leaves a stage
\* only when every invocation made so far has resolved (returned or raised):
\* one that never resolves keeps the run in its stage.
C19_UnresolvedInvocationBlocksRun ==
    /\ <>Terminated
    /\ [][ pc' # pc =>
              \A k \in DOMAIN calls : calls'[k].status \in {"returned", "raised"} ]_vars

\* C19 as amended: every run ends done or failed, and main leaves a stage
\* only when every invocation made so far has returned, or to fail when one
\* of them has raised (gather raises the first exception at once; siblings
\* still outstanding are cancelled, not awaited).
C19_TerminatesAndWaitsUnlessRaised ==
    /\ <>Terminated
    /\ [][ pc' # pc =>
              \/ \A k \in DOMAIN calls : calls'[k].status = "returned"
              \/ /\ pc' = "failed"
                 /\ \E k \in DOMAIN calls : calls'[k].status = "raised" ]_vars

\* A review raised while another was outstanding: the run has failed and
\* the other review was cancelled unresolved.
C19_Witness ==
    /\ pc = "failed"
    /\ \E k, j \in StageCalls("critique") :
          /\ calls[k].status = "raised"
          /\ calls[j].status = "cancelled"

====
